---- MODULE Spec2Model ----
(***************************************************************************)
(* Shopping Advisor MCP server: the OAuth gate (oauth.py, http_server.py)  *)
(* and the streamable-HTTP JSON-RPC transport (server.py).                 *)
(*                                                                         *)
(* Time is the value of datetime.utcnow() in minutes.  The synchronous     *)
(* part of a handler (no await in it) is one step at one instant.          *)
(* secrets.token_urlsafe(32) is a draw of a value never drawn before: the  *)
(* secrets are numbered 1, 2, 3, ... in the order they are drawn, and 0    *)
(* stands for an absent (None) form field.                                 *)
(***************************************************************************)
EXTENDS Integers, Sequences, FiniteSets, TLC

VARIABLES
  now,             \* datetime.utcnow(), in minutes
  next_secret,     \* the number of the next secrets.token_urlsafe(32) draw
  auth_codes,      \* oauth.py: auth_codes
  tokens,          \* oauth.py: tokens
  minted_codes,    \* history: every code /oauth/callback stored, as stored
  refresh_origin,  \* history: refresh token -> the code it was issued for
  issued,          \* history: access token -> [code, at] of its issue
  redeem_log       \* history: the successful code redemptions

oauthVars == <<now, next_secret, auth_codes, tokens,
               minted_codes, refresh_origin, issued, redeem_log>>

VARIABLES
  post,            \* the POST /mcp handler in flight: its body and its progress
  http,            \* the last HTTP response of POST /mcp
  sessions,        \* server.py: session_manager.sessions
  next_session,    \* the number of the next uuid.uuid4() draw
  trace,           \* history: start and end of each element of the request
  streams,         \* the open GET /mcp event streams, in the order opened
  queues,          \* the content of the asyncio.Queue made for each session
  next_msg         \* the number of the next message put in a queue

mcpVars ==
  <<post, http, sessions, next_session, trace, streams, queues, next_msg>>

VARIABLES
  inflight         \* the POST /oauth/token requests suspended in request.form()

vars == <<oauthVars, mcpVars, inflight>>

(***************************************************************************)
(* Bounds of the model and constants of the program.                       *)
(***************************************************************************)
MaxSecrets == 5
MaxCodes == 2
MaxBatch == 2
MaxSessions == 2

MaxStreams == 1

MaxFrames == 3

MaxMessages == 2

MaxInflight == 2
CodeTTL == 10
TokenTTL == 60
ExpiresIn == 3600

\* the instants at which the clock is read: a code minted at 0 is at its expiry
\* at 10 and past it at 20; a token issued at 0 or 10 is at or past its expiry
\* at 70, and one refreshed at 10 or 20 is past it at 90
Instants == {0, 10, 20, 70, 90}

NoSecret == 0

Users ==
  { [user_email |-> "alice@example.com", user_name |-> "Alice"],
    [user_email |-> "bob@example.com", user_name |-> "Bob"] }

NoUserInfo == [user_email |-> "", user_name |-> ""]

ClientIds == {"claude-ai"}

GrantTypes == {"authorization_code", "refresh_token", "password"}

MessageMethods == {"tools/list", "tools/call", "ping"}

(***************************************************************************)
(* Python dict helpers.                                                    *)
(***************************************************************************)
DictSet(d, k, v) == [x \in (DOMAIN d) \cup {k} |-> IF x = k THEN v ELSE d[x]]

DictDel(d, k) == [x \in (DOMAIN d) \ {k} |-> d[x]]

EmptyDict == [x \in {} |-> 0]

Min(S) == CHOOSE x \in S : \A y \in S : x <= y

(***************************************************************************)
(* The Authorization header as the handler sees it: absent, or a string,   *)
(* written here as the sequence of its pieces.  A piece is the scheme      *)
(* prefix "Bearer " (with its space), another scheme prefix, or a secret.  *)
(***************************************************************************)
Piece(text, secret) == [text |-> text, secret |-> secret]

NoHeader == <<Piece("absent", NoSecret)>>

BEARER == Piece("Bearer ", NoSecret)

BASIC == Piece("Basic ", NoSecret)

Secret(s) == Piece("", s)

HeaderShapes(s) ==
  { NoHeader, <<>>, <<Secret(s)>>, <<BASIC, Secret(s)>>, <<BEARER>>,
    <<BEARER, Secret(s)>>, <<BEARER, BEARER, Secret(s)>>,
    <<BEARER, Secret(s), BEARER>> }

\* str.startswith('Bearer ')
StartsWithBearer(h) == Len(h) >= 1 /\ h[1] = BEARER

\* str.replace('Bearer ', ''): every occurrence is removed
ReplaceBearer(h) == SelectSeq(h, LAMBDA p : p # BEARER)

\* `token in tokens`: the remaining string is a key of the table
TokenKey(table, h) ==
  LET t == ReplaceBearer(h)
  IN IF Len(t) = 1 /\ t[1].secret \in DOMAIN table THEN t[1].secret
     ELSE NoSecret

TokenExpired_Never(token_data, t) == FALSE

TokenExpired(token_data, t) == t > token_data.expires_at

NoTokenData ==
  [user_email |-> "", user_name |-> "", refresh_token |-> NoSecret,
   created_at |-> 0, expires_at |-> 0]

\* verify_token on table `table` at time t: the token_data returned (NoTokenData
\* for None) and the table it leaves
verify_token(table, authorization, t) ==
  IF authorization = NoHeader \/ authorization = <<>>
       \/ ~StartsWithBearer(authorization)
  THEN [ok |-> FALSE, token_data |-> NoTokenData, tokens |-> table]
  ELSE LET token == TokenKey(table, authorization)
       IN IF token = NoSecret
          THEN [ok |-> FALSE, token_data |-> NoTokenData, tokens |-> table]
          ELSE IF TokenExpired(table[token], t)
               THEN [ok |-> FALSE, token_data |-> NoTokenData,
                     tokens |-> DictDel(table, token)]
               ELSE [ok |-> TRUE, token_data |-> table[token],
                     tokens |-> table]

(***************************************************************************)
(* State after import: both tables empty.                                  *)
(***************************************************************************)
InitTables ==
  /\ now = 0
  /\ next_secret = 1
  /\ auth_codes = EmptyDict
  /\ tokens = EmptyDict
  /\ minted_codes = EmptyDict
  /\ refresh_origin = EmptyDict
  /\ issued = EmptyDict
  /\ redeem_log = {}

Tick(t) ==
  /\ t > now
  /\ now' = t
  /\ UNCHANGED <<next_secret, auth_codes, tokens,
                 minted_codes, refresh_origin, issued, redeem_log>>

(***************************************************************************)
(* GET /oauth/callback.  The code is stored before the redirect URI is     *)
(* looked up, so a callback without one answers 400 and keeps the code.    *)
(***************************************************************************)
NewAuthCode(user_info, client_id, t) ==
  [user_email |-> user_info.user_email,
   user_name |-> user_info.user_name,
   mcp_client_id |-> client_id,
   created_at |-> t,
   expires_at |-> t + CodeTTL]

oauth_callback(user_info, client_id, has_redirect_uri) ==
  IF user_info = NoUserInfo
  THEN [status |-> 400, code |-> NoSecret, auth_codes |-> auth_codes]
  ELSE [status |-> IF has_redirect_uri THEN 307 ELSE 400,
        code |-> IF has_redirect_uri THEN next_secret ELSE NoSecret,
        auth_codes |-> DictSet(auth_codes, next_secret,
                               NewAuthCode(user_info, client_id, now))]

Callback(user_info, client_id, has_redirect_uri) ==
  LET r == oauth_callback(user_info, client_id, has_redirect_uri)
  IN IF r.auth_codes = auth_codes
     THEN UNCHANGED oauthVars
     ELSE /\ next_secret <= MaxSecrets
          /\ Cardinality(DOMAIN minted_codes) < MaxCodes
          /\ auth_codes' = r.auth_codes
          /\ minted_codes' = DictSet(minted_codes, next_secret,
                                     r.auth_codes[next_secret])
          /\ next_secret' = next_secret + 1
          /\ UNCHANGED <<now, tokens, refresh_origin, issued, redeem_log>>

(***************************************************************************)
(* POST /oauth/token.  A result is the HTTP status, the body of a 200,     *)
(* and the two tables as the handler leaves them.                          *)
(***************************************************************************)
CodeExpired_Never(auth_data, t) == FALSE

CodeExpired(auth_data, t) == t > auth_data.expires_at

ConsumeCode_Keep(codes, code) == codes

\* del auth_codes[code] after the token pair is stored
ConsumeCode(codes, code) == DictDel(codes, code)

NewAccessToken_FirstCode(auth_data, refresh_token, t) ==
  [user_email |-> auth_codes[Min(DOMAIN auth_codes)].user_email,
   user_name |-> auth_codes[Min(DOMAIN auth_codes)].user_name,
   refresh_token |-> refresh_token,
   created_at |-> t,
   expires_at |-> t + TokenTTL]

NewAccessToken(auth_data, refresh_token, t) ==
  [user_email |-> auth_data.user_email,
   user_name |-> auth_data.user_name,
   refresh_token |-> refresh_token,
   created_at |-> t,
   expires_at |-> t + TokenTTL]

TokenBody(access_token, refresh_token, expires_in) ==
  [access_token |-> access_token, token_type |-> "Bearer",
   expires_in |-> expires_in, refresh_token |-> refresh_token]

NoBody == TokenBody(NoSecret, NoSecret, 0)

TokenResult(status, body, codes, table) ==
  [status |-> status, body |-> body, auth_codes |-> codes, tokens |-> table]

token_authorization_code(code) ==
  IF code = NoSecret \/ code \notin DOMAIN auth_codes
  THEN TokenResult(400, NoBody, auth_codes, tokens)
  ELSE IF CodeExpired(auth_codes[code], now)
  THEN TokenResult(400, NoBody, DictDel(auth_codes, code), tokens)
  ELSE LET access_token == next_secret
           refresh_token == next_secret + 1
       IN TokenResult(200, TokenBody(access_token, refresh_token, ExpiresIn),
                      ConsumeCode(auth_codes, code),
                      DictSet(tokens, access_token,
                              NewAccessToken(auth_codes[code], refresh_token, now)))

FindByRefresh_Live(table, refresh_token_value) ==
  LET hits == {k \in DOMAIN table :
                 /\ table[k].refresh_token = refresh_token_value
                 /\ ~TokenExpired(table[k], now)}
  IN IF hits = {} THEN NoSecret ELSE Min(hits)

\* for token_key, token_data in tokens.items(): the first entry, in insertion
\* order, whose refresh_token is the presented one.  Keys are inserted in the
\* order they are drawn, so insertion order is the order of the numbers.
FindByRefresh(table, refresh_token_value) ==
  LET hits == {k \in DOMAIN table :
                 table[k].refresh_token = refresh_token_value}
  IN IF hits = {} THEN NoSecret ELSE Min(hits)

RefreshedTable_Rotating(table, old_access_token, new_access_token, t) ==
  DictDel(DictSet(table, new_access_token,
                  [table[old_access_token] EXCEPT !.expires_at = t + TokenTTL]),
          old_access_token)

\* tokens[new] = tokens[old].copy(); tokens[new]['expires_at'] = utcnow() + 1h
RefreshedTable(table, old_access_token, new_access_token, t) ==
  DictSet(table, new_access_token,
          [table[old_access_token] EXCEPT !.expires_at = t + TokenTTL])

token_refresh(refresh_token_value) ==
  LET old_access_token == FindByRefresh(tokens, refresh_token_value)
  IN IF old_access_token = NoSecret
     THEN TokenResult(400, NoBody, auth_codes, tokens)
     ELSE TokenResult(200, TokenBody(next_secret, NoSecret, ExpiresIn),
                      auth_codes,
                      RefreshedTable(tokens, old_access_token, next_secret, now))

token_endpoint(grant_type, value) ==
  IF grant_type = "authorization_code" THEN token_authorization_code(value)
  ELSE IF grant_type = "refresh_token" THEN token_refresh(value)
  ELSE TokenResult(400, NoBody, auth_codes, tokens)

\* the secrets a 200 body hands out
Drawn(body) ==
  {body.access_token, body.refresh_token} \ {NoSecret}

Token(grant_type, value) ==
  LET r == token_endpoint(grant_type, value)
  IN /\ next_secret + Cardinality(Drawn(r.body)) <= MaxSecrets + 1
     /\ next_secret' = next_secret + Cardinality(Drawn(r.body))
     /\ auth_codes' = r.auth_codes
     /\ tokens' = r.tokens
     /\ IF r.status = 200 /\ grant_type = "authorization_code"
        THEN /\ redeem_log' = redeem_log \cup
                  {[code |-> value, at |-> now,
                    access_token |-> r.body.access_token]}
             /\ refresh_origin' =
                  DictSet(refresh_origin, r.body.refresh_token, value)
             /\ issued' = DictSet(issued, r.body.access_token,
                                  [code |-> value, at |-> now])
        ELSE IF r.status = 200
        THEN /\ issued' = DictSet(issued, r.body.access_token,
                                  [code |-> IF value \in DOMAIN refresh_origin
                                            THEN refresh_origin[value]
                                            ELSE NoSecret,
                                   at |-> now])
             /\ UNCHANGED <<redeem_log, refresh_origin>>
        ELSE UNCHANGED <<redeem_log, refresh_origin, issued>>
     /\ UNCHANGED <<now, minted_codes>>

(***************************************************************************)
(* POST /messages behind Depends(get_current_user)                         *)
(***************************************************************************)
Identity(d) == [user_email |-> d.user_email, user_name |-> d.user_name]

\* get_current_user: 401, or the user record handed to the handler
get_current_user(table, authorization, t) ==
  IF authorization = NoHeader \/ authorization = <<>>
  THEN [status |-> 401, user |-> NoUserInfo, tokens |-> table]
  ELSE LET v == verify_token(table, authorization, t)
       IN IF v.ok
          THEN [status |-> 200, user |-> Identity(v.token_data),
                tokens |-> v.tokens]
          ELSE [status |-> 401, user |-> NoUserInfo, tokens |-> v.tokens]

\* the reply of POST /messages: the dependency's 401, or the dispatch of method
handle_messages(table, authorization, method, t) ==
  LET u == get_current_user(table, authorization, t)
  IN IF u.status # 200
     THEN [status |-> 401, dispatched |-> "none", user |-> NoUserInfo,
           tokens |-> u.tokens]
     ELSE [status |-> 200, dispatched |-> method, user |-> u.user,
           tokens |-> u.tokens]

\* the dependency is the only part of the request that writes: the dispatch of
\* the method leaves both tables as they are
Messages(authorization) ==
  /\ tokens' = get_current_user(tokens, authorization, now).tokens
  /\ UNCHANGED <<now, next_secret, auth_codes,
                 minted_codes, refresh_origin, issued, redeem_log>>

\* the values a client can put in a form field or a header: none, or a secret
\* drawn so far
Presentable == 0 .. (next_secret - 1)

Headers == UNION {HeaderShapes(s) : s \in Presentable}

(***************************************************************************)
(* Properties of the OAuth gate.                                           *)
(***************************************************************************)
RedeemedCodes == {r.code : r \in redeem_log}

\* C3: one-time use.  In every state reached after a code has been redeemed,
\* a token request that presents that code again is answered 400, returns no
\* token pair and leaves the access-token table as it is.
C3_OneTimeUse ==
  \A code \in RedeemedCodes :
    LET again == token_endpoint("authorization_code", code)
    IN /\ again.status = 400
       /\ again.body = NoBody
       /\ again.tokens = tokens

C3_Witness ==
  \E r \in redeem_log :
    /\ now > r.at
    /\ r.access_token \in DOMAIN tokens
    /\ token_endpoint("authorization_code", r.code).status = 400

\* C4: a code lives 10 minutes.  A code presented later than 10 minutes after
\* /oauth/callback stored it is answered 400 and mints nothing; every
\* redemption on record happened within 10 minutes of the code's creation,
\* and no code has two redemptions on record.
C4_CodeLifetime ==
  /\ \A code \in DOMAIN auth_codes :
       now > minted_codes[code].created_at + CodeTTL =>
         LET late == token_endpoint("authorization_code", code)
         IN /\ late.status = 400
            /\ late.body = NoBody
            /\ late.tokens = tokens
  /\ \A r \in redeem_log : r.at <= minted_codes[r.code].created_at + CodeTTL
  /\ \A r1, r2 \in redeem_log : r1.code = r2.code => r1 = r2

C4_Witness ==
  /\ \E code \in DOMAIN auth_codes :
       /\ now > minted_codes[code].created_at + CodeTTL
       /\ token_endpoint("authorization_code", code).status = 400
  /\ \E r \in redeem_log : r.at = minted_codes[r.code].created_at + CodeTTL

\* C5: an access token expires 1 hour after its issue (by redemption or by
\* refresh), and presented later than that it is rejected by verify_token and
\* answered 401 by POST /messages, whatever the method.
C5_ExpiredTokenRejected ==
  \A k \in DOMAIN tokens :
    /\ tokens[k].expires_at = issued[k].at + TokenTTL
    /\ now > issued[k].at + TokenTTL =>
         \A h \in HeaderShapes(k), m \in MessageMethods :
           /\ ~verify_token(tokens, h, now).ok
           /\ handle_messages(tokens, h, m, now).status = 401

C5_Witness ==
  \E k \in DOMAIN tokens :
    /\ now > issued[k].at + TokenTTL
    /\ ~verify_token(tokens, <<BEARER, Secret(k)>>, now).ok
    /\ k \notin DOMAIN verify_token(tokens, <<BEARER, Secret(k)>>, now).tokens

\* C6: refresh is additive.  A refresh answered 200 adds exactly one entry
\* under a new key, with the owner of the entries that carry the presented
\* refresh token and an expiry of 1 hour from now, and leaves every prior
\* entry as it was, so that a prior token not yet expired is still accepted.
C6_RefreshAdditive ==
  \A rt \in Presentable :
    LET r == token_endpoint("refresh_token", rt)
        new == r.body.access_token
    IN r.status = 200 =>
         /\ new \notin DOMAIN tokens
         /\ DOMAIN r.tokens = DOMAIN tokens \cup {new}
         /\ \A k \in DOMAIN tokens : r.tokens[k] = tokens[k]
         /\ r.tokens[new].expires_at = now + TokenTTL
         /\ r.auth_codes = auth_codes
         /\ \A k \in DOMAIN tokens :
              tokens[k].refresh_token = rt =>
                /\ Identity(r.tokens[new]) = Identity(tokens[k])
                /\ now <= tokens[k].expires_at =>
                     verify_token(r.tokens, <<BEARER, Secret(k)>>, now).ok

\* a refreshed token and the token it was refreshed from, both in the table,
\* the older one still accepted
C6_Witness ==
  \E k1, k2 \in DOMAIN tokens :
    /\ k1 < k2
    /\ tokens[k1].refresh_token = tokens[k2].refresh_token
    /\ tokens[k2].expires_at > tokens[k1].expires_at
    /\ verify_token(tokens, <<BEARER, Secret(k1)>>, now).ok

LiveCredential(h) ==
  /\ h # NoHeader
  /\ StartsWithBearer(h)
  /\ Len(h) = 2
  /\ h[2].secret \in DOMAIN tokens
  /\ now <= tokens[h[2].secret].expires_at

\* C8: the gate.  A POST /messages whose header is missing, is not a Bearer
\* credential, or carries a token that is unknown or expired is answered 401
\* and dispatches no method.
C8_GateRejects ==
  \A h \in Headers, m \in MessageMethods :
    ~LiveCredential(h) =>
      /\ handle_messages(tokens, h, m, now).status = 401
      /\ handle_messages(tokens, h, m, now).dispatched = "none"


(***************************************************************************)
(* JSON values of POST /mcp.  The string "None" stands for Python's None:  *)
(* a key that is absent or null.  A body is invalid JSON, one value, or a  *)
(* list of values; a value is a JSON object (a message) or a scalar.       *)
(***************************************************************************)
None == "None"

ProductList(kind, n) == [kind |-> kind, n |-> n]

NoList == ProductList("absent", 0)

Args(shape, product_name, product_list) ==
  [shape |-> shape, product_name |-> product_name,
   product_list |-> product_list]

NoArgs == Args("absent", None, NoList)

BadArgs == Args("bad", None, NoList)

Params(shape, name, arguments) ==
  [shape |-> shape, name |-> name, arguments |-> arguments]

NoParams == Params("absent", None, NoArgs)

BadParams == Params("bad", None, NoArgs)

Message(method, id, params) ==
  [json |-> "object", method |-> method, id |-> id, params |-> params]

Scalar == [json |-> "scalar", method |-> None, id |-> None, params |-> NoParams]

Body(json, elems) == [json |-> json, elems |-> elems]

Ids == {None, "0", "7"}

Methods ==
  {"initialize", "notifications/initialized", "notifications/cancelled",
   "tools/list", "tools/call", "ping", "resources/list", None}

ToolNames ==
  {"get_product", "create_shopping_guide", "compare_products"}

Upstream == {"ok", "none", "raise"}

ERROR_MESSAGE == "try again later"

(***************************************************************************)
(* formatter.py: the two envelopes and the two tool results.               *)
(***************************************************************************)
Result(type, isError, text) ==
  [type |-> type, isError |-> isError, text |-> text]

NoResult == Result(None, FALSE, None)

\* the value of the code member of an envelope that has none
NoCode == 0

JsonRpcFormat_success(msg_id, result) ==
  [jsonrpc |-> "2.0", id |-> msg_id, has |-> "result",
   result |-> result, error |-> None, code |-> NoCode]

\* the error member is the string itself: the envelope has no code member
JsonRpcFormat_error(msg_id, error) ==
  [jsonrpc |-> "2.0", id |-> msg_id, has |-> "error",
   result |-> NoResult, error |-> error, code |-> NoCode]

\* f"Method not found: {method}"
MethodNotFound(method) ==
  CASE method = "resources/list" -> "Method not found: resources/list"
    [] method = "notifications/cancelled"
         -> "Method not found: notifications/cancelled"
    [] method = "ping" -> "Method not found: ping"
    [] method = "initialize" -> "Method not found: initialize"
    [] method = "notifications/initialized"
         -> "Method not found: notifications/initialized"
    [] OTHER -> "Method not found: None"

ResponseFormat_success(content) == Result("content", FALSE, content)

ResponseFormat_error(content) == Result("content", TRUE, content)

(***************************************************************************)
(* execute_tool.  up1 and up2 are what the completion API does on the      *)
(* first and the second request of the tool: "ok" (a valid object),        *)
(* "none" (a failure the client turns into None) or "raise".  k is         *)
(* "return" (a tool result) or "raise" (an HTTPException leaves the        *)
(* function); suspends tells whether the tool was awaited.                 *)
(***************************************************************************)
ToolOut(k, result, detail, suspends) ==
  [k |-> k, result |-> result, detail |-> detail, suspends |-> suspends]

Falsy_NoneOnly(x) == x = None

\* not x, for a string or None
Falsy(x) == x = None \/ x = ""

\* tool.py get_product + MarkdownFormat.product_info
get_product_result(up1) ==
  IF up1 = "ok" THEN ResponseFormat_success("markdown")
  ELSE ResponseFormat_error(ERROR_MESSAGE)

\* tool.py create_shopping_guide + MarkdownFormat.shopping_guide: a None part
\* is left out of the document, an exception gives ERROR_MESSAGE
create_shopping_guide_result(up1, up2) ==
  IF up1 = "raise" \/ (up1 # "raise" /\ up2 = "raise")
  THEN ResponseFormat_error(ERROR_MESSAGE)
  ELSE IF up1 = "ok" /\ up2 = "ok" THEN ResponseFormat_success("markdown")
  ELSE IF up1 = "none" /\ up2 = "none" THEN ResponseFormat_success("")
  ELSE ResponseFormat_success("partial markdown")

\* tool.py compare_products + compare_products_request + comparison_data
compare_products_result(n, up1) ==
  IF n < 2 THEN ResponseFormat_error(ERROR_MESSAGE)
  ELSE IF up1 = "ok" THEN ResponseFormat_success("markdown")
  ELSE ResponseFormat_error(ERROR_MESSAGE)

execute_tool(tool_name, arguments, up1, up2) ==
  IF Falsy(tool_name)
  THEN ToolOut("raise", NoResult, "404: Tool not found", FALSE)
  ELSE IF tool_name \notin ToolNames
  THEN ToolOut("return", ResponseFormat_error(ERROR_MESSAGE), None, FALSE)
  ELSE IF arguments.shape = "bad"
  THEN ToolOut("return", ResponseFormat_error(ERROR_MESSAGE), None, FALSE)
  ELSE IF tool_name = "get_product"
  THEN IF Falsy(arguments.product_name)
       THEN ToolOut("raise", NoResult, "400: product name required", FALSE)
       ELSE ToolOut("return", get_product_result(up1), None, TRUE)
  ELSE IF tool_name = "create_shopping_guide"
  THEN IF Falsy(arguments.product_name)
       THEN ToolOut("raise", NoResult, "400: product name required", FALSE)
       ELSE ToolOut("return", create_shopping_guide_result(up1, up2), None, TRUE)
  ELSE IF arguments.product_list.kind # "list" \/ arguments.product_list.n = 0
       THEN ToolOut("raise", NoResult, "400: product name required", FALSE)
       ELSE ToolOut("return",
                    compare_products_result(arguments.product_list.n, up1),
                    None, TRUE)

(***************************************************************************)
(* process_mcp_message.  k is "reply" (an envelope), "none" (None) or      *)
(* "raise" (an exception leaves the function: body.get or params.get on a  *)
(* value that is no dict).                                                 *)
(***************************************************************************)
Processed(k, envelope, detail) ==
  [k |-> k, envelope |-> envelope, detail |-> detail]

NoEnvelope == JsonRpcFormat_error(None, None)

\* json.dumps(tool_output) wrapped by ResponseFormat.success
WrapToolOutput(tool_output) ==
  [type |-> "content", isError |-> FALSE,
   text |-> IF tool_output.isError THEN "{isError: true}"
            ELSE "{isError: false}"]

process_mcp_message(body, up1, up2) ==
  IF body.json # "object"
  THEN Processed("raise", NoEnvelope, "AttributeError")
  ELSE IF body.method = "initialize"
  THEN Processed("reply",
         JsonRpcFormat_success(body.id, Result("initialize", FALSE, "2024-11-05")),
         None)
  ELSE IF body.method = "notifications/initialized"
  THEN Processed("none", NoEnvelope, None)
  ELSE IF body.method = "tools/list"
  THEN Processed("reply",
         JsonRpcFormat_success(body.id, Result("tools", FALSE, "TOOLS_INFO")),
         None)
  ELSE IF body.method = "tools/call"
  THEN IF body.params.shape = "bad"
       THEN Processed("raise", NoEnvelope, "AttributeError")
       ELSE LET t == execute_tool(body.params.name, body.params.arguments,
                                  up1, up2)
            IN IF t.k = "raise"
               THEN Processed("reply", JsonRpcFormat_error(body.id, t.detail),
                              None)
               ELSE Processed("reply",
                      JsonRpcFormat_success(body.id, WrapToolOutput(t.result)),
                      None)
  ELSE IF body.method = "ping"
  THEN Processed("reply",
         JsonRpcFormat_success(body.id, Result("empty", FALSE, None)), None)
  ELSE Processed("reply",
         JsonRpcFormat_error(body.id, MethodNotFound(body.method)), None)

\* whether processing the value reaches an await of a tool
Suspends(body) ==
  /\ body.json = "object"
  /\ body.method = "tools/call"
  /\ body.params.shape # "bad"
  /\ execute_tool(body.params.name, body.params.arguments, "ok", "ok").suspends

(***************************************************************************)
(* POST /mcp                                                               *)
(***************************************************************************)
NotificationMethods == {"notifications/initialized", "notifications/cancelled"}

\* mcp_post, single message: body.get("id") is None or method in [...]
IsNotificationOrResponse(body) ==
  body.id = None \/ body.method \in NotificationMethods

Http(status, shape, content, session) ==
  [status |-> status, shape |-> shape, content |-> content,
   session |-> session]

NoHttp == Http(0, "empty", <<>>, 0)

Post(pc, body, i, responses, origins) ==
  [pc |-> pc, body |-> body, i |-> i, responses |-> responses,
   origins |-> origins]

NoPost == Post("idle", Body("invalid", <<>>), 1, <<>>, <<>>)

Event(i, ev) == [i |-> i, ev |-> ev]

\* SessionManager.create_session: created_at is never read and is left out
\* queue names the asyncio.Queue made for the session: queues[session_id]
NewSession(session_id) == [queue |-> session_id, initialized |-> FALSE]

AppendReply_Front(seq, x) == <<x>> \o seq

\* responses.append(response)
AppendReply(seq, x) == Append(seq, x)

InitMcp ==
  /\ post = NoPost
  /\ http = NoHttp
  /\ sessions = EmptyDict
  /\ next_session = 1
  /\ trace = <<>>
  /\ streams = <<>>
  /\ queues = [s \in 1 .. MaxSessions |-> <<>>]
  /\ next_msg = 1

\* body = await request.json(): a JSONDecodeError is answered 400 at once
PostReceive(body) ==
  /\ post.pc = "idle"
  /\ trace' = <<>>
  /\ IF body.json = "invalid"
     THEN /\ post' = Post("done", body, 1, <<>>, <<>>)
          /\ http' = Http(400, "object",
                          <<JsonRpcFormat_error(None, "Parse error")>>, 0)
     ELSE /\ post' = Post("loop", body, 1, <<>>, <<>>)
          /\ http' = NoHttp
  /\ UNCHANGED <<sessions, next_session>>

\* what the handler does with the outcome r of element i: an exception is
\* answered 500 with a null id, a reply is kept, None is dropped
Continue(r, events) ==
  /\ trace' = trace \o events
  /\ IF r.k = "raise"
     THEN /\ post' = Post("done", post.body, post.i, <<>>, <<post.i>>)
          /\ http' = Http(500, "object",
                          <<JsonRpcFormat_error(None, r.detail)>>, 0)
     ELSE /\ post' = Post("loop", post.body, post.i + 1,
                          IF r.k = "reply"
                          THEN AppendReply(post.responses, r.envelope)
                          ELSE post.responses,
                          IF r.k = "reply"
                          THEN Append(post.origins, post.i)
                          ELSE post.origins)
          /\ http' = http
  /\ UNCHANGED <<sessions, next_session>>

\* the next element, up to its reply or to the await of its tool
PostStep ==
  /\ post.pc = "loop"
  /\ post.i <= Len(post.body.elems)
  /\ LET msg == post.body.elems[post.i]
     IN IF Suspends(msg)
        THEN /\ post' = [post EXCEPT !.pc = "tool"]
             /\ trace' = Append(trace, Event(post.i, "start"))
             /\ UNCHANGED <<http, sessions, next_session>>
        ELSE Continue(process_mcp_message(msg, "ok", "ok"),
                      <<Event(post.i, "start"), Event(post.i, "end")>>)

\* the awaited tool returns
PostToolDone(up1, up2) ==
  /\ post.pc = "tool"
  /\ Continue(process_mcp_message(post.body.elems[post.i], up1, up2),
              <<Event(post.i, "end")>>)

\* the response of a batch
BatchResponse(responses) ==
  IF responses = <<>> THEN Http(202, "empty", <<>>, 0)
  ELSE IF Len(responses) > 1 THEN Http(200, "array", responses, 0)
  ELSE Http(200, "object", <<responses[1]>>, 0)

\* the response of one message; an initialize request draws a session id
SingleResponse(body, responses, session_id) ==
  IF IsNotificationOrResponse(body) THEN Http(202, "empty", <<>>, 0)
  ELSE Http(200, "object", responses,
            IF body.method = "initialize" THEN session_id ELSE 0)

PostRespond ==
  /\ post.pc = "loop"
  /\ post.i > Len(post.body.elems)
  /\ post' = [post EXCEPT !.pc = "done"]
  /\ trace' = trace
  /\ IF post.body.json = "list"
     THEN /\ http' = BatchResponse(post.responses)
          /\ UNCHANGED <<sessions, next_session>>
     ELSE LET r == SingleResponse(post.body.elems[1], post.responses,
                                  next_session)
          IN /\ http' = r
             /\ IF r.session # 0
                THEN /\ next_session <= MaxSessions
                     /\ sessions' = DictSet(sessions, next_session, NewSession(next_session))
                     /\ next_session' = next_session + 1
                ELSE UNCHANGED <<sessions, next_session>>

\* the handler has returned: the response is sent and its locals are gone
PostReturn ==
  /\ post.pc = "done"
  /\ post' = NoPost
  /\ http' = NoHttp
  /\ trace' = <<>>
  /\ UNCHANGED <<sessions, next_session>>

(***************************************************************************)
(* The requests a client sends.                                            *)
(***************************************************************************)
ToolArgs ==
  {NoArgs, BadArgs}
  \cup {Args("object", pn, NoList) : pn \in {None, "", "tv"}}
  \cup {Args("object", None, ProductList(k, n)) :
          k \in {"list", "str"}, n \in 0 .. 2}

ToolParams ==
  {NoParams, BadParams}
  \cup {Params("object", name, a) :
          name \in ToolNames \cup {None, "", "no_such_tool"}, a \in ToolArgs}

SingleMessages ==
  {Scalar}
  \cup {Message(m, id, NoParams) : m \in Methods \ {"tools/call"}, id \in Ids}
  \cup {Message("tools/call", id, p) : id \in Ids, p \in ToolParams}

BatchToolParams ==
  {BadParams,
   Params("object", "get_product", Args("object", "tv", NoList)),
   Params("object", "create_shopping_guide", Args("object", "", NoList))}

BatchMessages ==
  {Scalar}
  \cup {Message(m, id, NoParams) : m \in Methods \ {"tools/call"}, id \in Ids}
  \cup {Message("tools/call", id, p) : id \in Ids, p \in BatchToolParams}

Batches ==
  UNION {[1 .. n -> BatchMessages] : n \in 0 .. MaxBatch}

Bodies ==
  {Body("invalid", <<>>)}
  \cup {Body("one", <<m>>) : m \in SingleMessages}
  \cup {Body("list", b) : b \in Batches}

(***************************************************************************)
(* The two specifications: the OAuth gate, and the /mcp transport.         *)
(***************************************************************************)
FreeSlot == [pc |-> "free", grant_type |-> "none", value |-> NoSecret,
             live |-> FALSE, status |-> 0]

\* no request is in flight
InitToken == inflight = [r \in 1 .. MaxInflight |-> FreeSlot]

Init == InitTables /\ InitMcp /\ InitToken

NextOAuth ==
  \/ \E t \in Instants : Tick(t) /\ UNCHANGED <<inflight, mcpVars>>
  \/ \E u \in Users \cup {NoUserInfo}, c \in ClientIds, r \in BOOLEAN :
       Callback(u, c, r) /\ UNCHANGED <<inflight, mcpVars>>
  \/ \E g \in GrantTypes, s \in Presentable : Token(g, s) /\ UNCHANGED <<inflight, mcpVars>>
  \/ \E h \in Headers : Messages(h) /\ UNCHANGED <<inflight, mcpVars>>

SpecOAuth == Init /\ [][NextOAuth]_vars

NextMcp ==
  \/ /\ post.pc = "idle"
     /\ \E body \in Bodies :
          PostReceive(body) /\ UNCHANGED <<inflight, oauthVars, streams, queues, next_msg>>
  \/ PostStep /\ UNCHANGED <<inflight, oauthVars, streams, queues, next_msg>>
  \/ \E up1, up2 \in Upstream :
       PostToolDone(up1, up2) /\ UNCHANGED <<inflight, oauthVars, streams, queues, next_msg>>
  \/ PostRespond /\ UNCHANGED <<inflight, oauthVars, streams, queues, next_msg>>
  \/ PostReturn /\ UNCHANGED <<inflight, oauthVars, streams, queues, next_msg>>

SpecMcp == Init /\ [][NextMcp]_vars

(***************************************************************************)
(* Properties of POST /mcp.  post.origins[j] is the position in the body  *)
(* of the value whose processing produced the j-th reply (or, after an     *)
(* exception, the one reply of the handler).                               *)
(***************************************************************************)
Answered == post.pc = "done"

IsBatch == post.body.json = "list"

IsRequest(msg) ==
  msg.json = "object" /\ msg.method # None /\ msg.id # None

IsNotification(msg) ==
  msg.json = "object" /\ (msg.id = None \/ msg.method \in NotificationMethods)

Origin(j) == post.body.elems[post.origins[j]]

\* C1: every reply envelope of POST /mcp that answers a request (method and
\* id both present), alone or in a batch, carries the id of that request.
C1_IdEcho ==
  Answered =>
    \A j \in 1 .. Len(post.origins) :
      (j <= Len(http.content) /\ IsRequest(Origin(j)))
        => http.content[j].id = Origin(j).id

\* C2: a notification never produces a response body: alone it is answered
\* 202 with an empty body, and in a batch no reply comes from it.
C2_NotificationsSilent ==
  Answered =>
    /\ (~IsBatch /\ post.body.json = "one" /\ IsNotification(post.body.elems[1]))
         => (http.status = 202 /\ http.shape = "empty")
    /\ IsBatch => \A j \in 1 .. Len(post.origins) : ~IsNotification(Origin(j))

\* C9: in a batch the elements are processed strictly in array order, one
\* finishing before the next starts, and the replies stand in the order of
\* their requests.
C9_BatchOrder ==
  IsBatch =>
    /\ \A k \in 1 .. Len(trace) :
         trace[k] = Event((k + 1) \div 2, IF k % 2 = 1 THEN "start" ELSE "end")
    /\ Len(post.responses) = Len(post.origins) \/ http.status = 500
    /\ http.status # 500 =>
         /\ \A j, k \in 1 .. Len(post.origins) :
              j < k => post.origins[j] < post.origins[k]
         /\ \A j \in 1 .. Len(post.origins) :
              post.responses[j].id = Origin(j).id
    /\ (Answered /\ http.status = 200) =>
         \A j \in 1 .. Len(http.content) : http.content[j] = post.responses[j]

C9_Witness ==
  /\ Answered /\ IsBatch
  /\ http.shape = "array"
  /\ Len(http.content) = 2
  /\ Suspends(post.body.elems[1])
  /\ http.content[1].id # http.content[2].id
  /\ trace = <<Event(1, "start"), Event(1, "end"),
               Event(2, "start"), Event(2, "end")>>

\* C10: a batch of notifications only is answered 202 with no content; a
\* batch that leaves one reply returns it as a single object; a batch that
\* leaves two or more replies returns them as an array.
C10_BatchShape ==
  (Answered /\ IsBatch) =>
    /\ (\A i \in 1 .. Len(post.body.elems) : IsNotification(post.body.elems[i]))
         => (http.status = 202 /\ http.shape = "empty")
    /\ (http.status # 500 /\ Len(post.responses) = 1)
         => (http.shape = "object" /\ http.content = post.responses)
    /\ (http.status # 500 /\ Len(post.responses) >= 2)
         => (http.shape = "array" /\ http.content = post.responses)

\* processing the value raises: it is no JSON object, or its params is none
Fails(msg) == process_mcp_message(msg, "ok", "ok").k = "raise"

\* C11: batch elements are dispatched independently: when one element of a
\* batch fails, every other request of the batch still receives its own reply.
C11_ElementsIndependent ==
  (Answered /\ IsBatch) =>
    \A i \in 1 .. Len(post.body.elems) :
      (IsRequest(post.body.elems[i]) /\ ~Fails(post.body.elems[i])
         /\ post.body.elems[i].method # "notifications/initialized")
        => \E j \in 1 .. Len(http.content) :
             /\ http.content[j].id = post.body.elems[i].id
             /\ http.status = 200

\* the initialize requests of the body being answered
InitializeRequests ==
  {i \in 1 .. Len(post.body.elems) :
     IsRequest(post.body.elems[i]) /\ post.body.elems[i].method = "initialize"}

\* C12: every initialize request of a POST /mcp, alone or as a batch element,
\* allocates exactly one new session, whose id is new and is returned in the
\* Mcp-Session-Id header of the response.
C12_InitializeAllocates ==
  [][(post.pc = "loop" /\ post'.pc = "done" /\ http'.status = 200
        /\ InitializeRequests # {})
       => /\ Cardinality(DOMAIN sessions' \ DOMAIN sessions)
               = Cardinality(InitializeRequests)
          /\ http'.session \in DOMAIN sessions' \ DOMAIN sessions]_vars

(***************************************************************************)
(* DELETE /mcp and GET /mcp.  A session id is the number of its draw; the  *)
(* header value 0 stands for a missing (or empty) Mcp-Session-Id header.   *)
(***************************************************************************)
NoSessionHeader == 0

SessionHeaders == 0 .. MaxSessions + 1

\* SessionManager.get_session: the session, or None
get_session(table, session_id) == session_id \in DOMAIN table

delete_session_Keep(table, session_id) ==
  [ok |-> session_id \in DOMAIN table, sessions |-> table]

\* SessionManager.delete_session
delete_session(table, session_id) ==
  IF session_id \in DOMAIN table
  THEN [ok |-> TRUE, sessions |-> DictDel(table, session_id)]
  ELSE [ok |-> FALSE, sessions |-> table]

\* mcp_delete: the status of the response and the table it leaves
mcp_delete(table, session_id) ==
  IF session_id = NoSessionHeader
  THEN [status |-> 400, sessions |-> table]
  ELSE LET d == delete_session(table, session_id)
       IN [status |-> IF d.ok THEN 204 ELSE 404, sessions |-> d.sessions]

McpDelete(session_id) ==
  /\ sessions' = mcp_delete(sessions, session_id).sessions
  /\ UNCHANGED <<post, http, next_session, trace, streams>>

\* mcp_get: the status of the response and the queue the event generator
\* reads: "none" (no stream), "session" (the queue of the session) or
\* "fresh" (a new asyncio.Queue() that nothing else refers to)
mcp_get(table, accepts_event_stream, session_id) ==
  IF ~accepts_event_stream THEN [status |-> 405, queue |-> "none"]
  ELSE IF session_id # NoSessionHeader /\ ~get_session(table, session_id)
  THEN [status |-> 404, queue |-> "none"]
  ELSE [status |-> 200,
        queue |-> IF session_id # NoSessionHeader THEN "session" ELSE "fresh"]

\* an event_generator: the session id and the kind of queue mcp_get gave it,
\* its position, its event_id, the queue q it reads (a key of queues, 0 for
\* a fresh queue, -1 for None), the frames it has yielded, and whether the
\* peer has disconnected
Stream(session_id, queue) ==
  [session |-> session_id, queue |-> queue, pc |-> "new", event_id |-> 0,
   q |-> 0, frames |-> <<>>, disconnected |-> FALSE]

McpGet(accepts_event_stream, session_id) ==
  /\ Len(streams) < MaxStreams
  /\ LET r == mcp_get(sessions, accepts_event_stream, session_id)
     IN streams' = IF r.status = 200
                   THEN Append(streams, Stream(session_id, r.queue))
                   ELSE streams
  /\ UNCHANGED <<post, http, sessions, next_session, trace>>

\* the requests that bring the session table forward
SessionBodies ==
  {Body("one", <<Message("initialize", "0", NoParams)>>),
   Body("one", <<Message("ping", "7", NoParams)>>),
   Body("one", <<Message("tools/call", "7",
                   Params("object", "get_product",
                          Args("object", "tv", NoList)))>>),
   Body("list", <<Message("initialize", "0", NoParams)>>),
   Body("invalid", <<>>)}

NextSession ==
  \/ /\ post.pc = "idle"
     /\ \E body \in SessionBodies :
          PostReceive(body) /\ UNCHANGED <<inflight, oauthVars, streams, queues, next_msg>>
  \/ PostStep /\ UNCHANGED <<inflight, oauthVars, streams, queues, next_msg>>
  \/ \E up1, up2 \in Upstream :
       PostToolDone(up1, up2) /\ UNCHANGED <<inflight, oauthVars, streams, queues, next_msg>>
  \/ PostRespond /\ UNCHANGED <<inflight, oauthVars, streams, queues, next_msg>>
  \/ PostReturn /\ UNCHANGED <<inflight, oauthVars, streams, queues, next_msg>>
  \/ \E h \in SessionHeaders :
       McpDelete(h) /\ UNCHANGED <<inflight, oauthVars, queues, next_msg>>
  \/ \E a \in BOOLEAN, h \in SessionHeaders :
       McpGet(a, h) /\ UNCHANGED <<inflight, oauthVars, queues, next_msg>>

SpecSession == Init /\ [][NextSession]_vars

\* the ids that were allocated and have been deleted since
DeletedSessions == (1 .. (next_session - 1)) \ DOMAIN sessions

\* C13: DELETE /mcp with the id of an existing session removes that session
\* and answers 204; with an unknown id (an id already deleted included) it
\* answers 404 and changes no session; without the header it answers 400
\* and changes no session.
C13_DeleteEndsSession ==
  \A h \in SessionHeaders :
    LET r == mcp_delete(sessions, h)
    IN /\ h \in DOMAIN sessions =>
            /\ r.status = 204
            /\ DOMAIN r.sessions = DOMAIN sessions \ {h}
            /\ \A k \in DOMAIN r.sessions : r.sessions[k] = sessions[k]
       /\ (h # NoSessionHeader /\ h \notin DOMAIN sessions) =>
            (r.status = 404 /\ r.sessions = sessions)
       /\ h = NoSessionHeader =>
            (r.status = 400 /\ r.sessions = sessions)

C13_Witness ==
  /\ DeletedSessions # {}
  /\ DOMAIN sessions # {}
  /\ \E h \in DeletedSessions : mcp_delete(sessions, h).status = 404
  /\ \E h \in DOMAIN sessions : mcp_delete(sessions, h).status = 204

\* C14: GET /mcp opens the push channel only for a request that carries the
\* id of a session in the session table; without the Mcp-Session-Id header,
\* or with an unknown id, it is rejected and opens no stream.
C14_GetRequiresSession ==
  \A a \in BOOLEAN, h \in SessionHeaders :
    LET r == mcp_get(sessions, a, h)
    IN /\ r.status = 200 => h \in DOMAIN sessions
       /\ h \notin DOMAIN sessions => r.queue = "none"

(***************************************************************************)
(* The tool catalog.  An entry is the name of the tool with the properties *)
(* of its inputSchema and those of them that are required.                 *)
(***************************************************************************)
Tool(name, properties, required) ==
  [name |-> name, properties |-> properties, required |-> required]

\* tool.py TOOLS_INFO
TOOLS_INFO ==
  <<Tool("get_product", {"product_name"}, {"product_name"}),
    Tool("create_shopping_guide", {"product_name"}, {"product_name"}),
    Tool("compare_products", {"product_list", "comparison_points"},
         {"product_list"})>>

\* http_server.py handle_messages: the list it builds for tools/list
handle_messages_tools ==
  <<Tool("get_product", {"product_name"}, {"product_name"}),
    Tool("create_shopping_guide", {"product_name"}, {"product_name"}),
    Tool("compare_products", {"product_names", "comparison_points"},
         {"product_names"})>>

\* the catalog in the result {"tools": TOOLS_INFO} of process_mcp_message
ToolsOf(result) ==
  IF result.type = "tools" /\ result.text = "TOOLS_INFO" THEN TOOLS_INFO
  ELSE <<>>

\* http_server.py handle_messages: the body it returns for an authenticated
\* request, by method
messages_body(method, msg_id) ==
  IF method = "tools/list"
  THEN [jsonrpc |-> "2.0", id |-> msg_id, has |-> "result",
        tools |-> handle_messages_tools, code |-> NoCode, message |-> None]
  ELSE IF method = "tools/call"
  THEN [jsonrpc |-> "2.0", id |-> msg_id, has |-> "result",
        tools |-> <<>>, code |-> NoCode, message |-> None]
  ELSE [jsonrpc |-> "2.0", id |-> msg_id, has |-> "error",
        tools |-> <<>>, code |-> -32601, message |-> MethodNotFound(method)]

\* the catalog of the interface: get_product{product_name},
\* create_shopping_guide{product_name},
\* compare_products{product_list, comparison_points?}
DeclaredCatalog ==
  <<Tool("get_product", {"product_name"}, {"product_name"}),
    Tool("create_shopping_guide", {"product_name"}, {"product_name"}),
    Tool("compare_products", {"product_list", "comparison_points"},
         {"product_list"})>>

\* every tools/list reply of POST /mcp carries the declared catalog
McpCatalogDeclared ==
  Answered =>
    \A j \in 1 .. Len(post.origins) :
      (j <= Len(http.content) /\ http.status = 200
         /\ Origin(j).json = "object" /\ Origin(j).method = "tools/list")
        => ToolsOf(http.content[j].result) = DeclaredCatalog

\* C15: tools/list returns exactly the three catalog entries with their
\* declared schemas, in every server variant (POST /mcp and POST /messages)
\* and after any sequence of earlier requests.
C15_Catalog ==
  /\ McpCatalogDeclared
  /\ \A id \in Ids : messages_body("tools/list", id).tools = DeclaredCatalog

\* the methods process_mcp_message has a branch for
RecognizedMethods ==
  {"initialize", "notifications/initialized", "tools/list", "tools/call",
   "ping"}

\* the methods handle_messages has a branch for
MessagesRecognized == {"tools/list", "tools/call"}

\* a request whose method neither handler has a branch for
IsUnrecognized(msg) ==
  /\ IsRequest(msg)
  /\ msg.method \notin RecognizedMethods \cup NotificationMethods

\* C16: a request whose method is not recognized is answered with an error
\* envelope whose error has code -32601 and a message naming the method,
\* with the id of the request.
C16_MethodNotFound ==
  /\ Answered =>
       \A j \in 1 .. Len(post.origins) :
         (j <= Len(http.content) /\ IsUnrecognized(Origin(j))) =>
           /\ http.content[j].has = "error"
           /\ http.content[j].code = -32601
           /\ http.content[j].error = MethodNotFound(Origin(j).method)
           /\ http.content[j].id = Origin(j).id
  /\ \A m \in MessageMethods \ MessagesRecognized, id \in Ids \ {None} :
       LET b == messages_body(m, id)
       IN /\ b.has = "error" /\ b.code = -32601
          /\ b.message = MethodNotFound(m) /\ b.id = id

\* C17: a POST /mcp whose body is not valid JSON is answered HTTP 400 with an
\* error envelope with code -32700 and id null, and the session table is
\* left unchanged.
C17_ParseError ==
  [][(post.pc = "idle" /\ post'.pc = "done" /\ post'.body.json = "invalid")
       => /\ http'.status = 400
          /\ Len(http'.content) = 1
          /\ http'.content[1].has = "error"
          /\ http'.content[1].code = -32700
          /\ http'.content[1].id = None
          /\ sessions' = sessions]_vars

\* C18: a GET /mcp whose Accept header does not contain text/event-stream is
\* answered HTTP 406 and opens no stream.
C18_NotAcceptable ==
  \A h \in SessionHeaders :
    /\ mcp_get(sessions, FALSE, h).status = 406
    /\ mcp_get(sessions, FALSE, h).queue = "none"

\* a tools/call request whose tool is executed to a tool result
IsToolCall(msg) ==
  /\ IsRequest(msg)
  /\ msg.method = "tools/call"
  /\ msg.params.shape # "bad"

\* C19: the result of tools/call carries isError:false exactly when the tool
\* execution succeeded and isError:true when it failed (unknown tool,
\* upstream failure, rendering failure): a failed execution is never
\* reported with isError:false.
C19_IsErrorFaithful ==
  /\ Answered =>
       \A j \in 1 .. Len(post.origins) :
         (j <= Len(http.content) /\ IsToolCall(Origin(j))
            /\ http.content[j].has = "result") =>
           (http.content[j].result.isError
              <=> http.content[j].result.text = "{isError: true}")
  /\ \A msg \in SingleMessages, up1, up2 \in Upstream :
       LET t == execute_tool(msg.params.name, msg.params.arguments, up1, up2)
           r == process_mcp_message(msg, up1, up2)
       IN (IsToolCall(msg) /\ t.k = "return") =>
            /\ r.k = "reply" /\ r.envelope.has = "result"
            /\ r.envelope.result.isError = t.result.isError

\* an exception is raised while the tool of the request is executed: an
\* HTTPException of the validation, or one that execute_tool turns into an
\* error result (unknown tool, arguments that are no object, a rendering
\* failure), whatever the upstream API does
ToolRaises(msg) ==
  LET t == execute_tool(msg.params.name, msg.params.arguments, "ok", "ok")
  IN t.k = "raise" \/ t.result.isError

\* C20: an exception raised while a tool is executed for tools/call is
\* returned as a JSON-RPC error envelope with code -32603 and the id of the
\* request, and never escapes as an HTTP error status.
C20_InternalError ==
  Answered =>
    \A j \in 1 .. Len(post.origins) :
      (j <= Len(http.content) /\ IsToolCall(Origin(j))
         /\ ToolRaises(Origin(j))) =>
        /\ http.status = 200
        /\ http.content[j].has = "error"
        /\ http.content[j].code = -32603
        /\ http.content[j].id = Origin(j).id

\* a tools/call request that names a tool outside the catalog
IsUnknownToolCall(msg) ==
  IsToolCall(msg) /\ msg.params.name \notin ToolNames

\* the envelope tells the caller that the tool was not found
SaysNotFound(envelope) ==
  \/ envelope.has = "error" /\ envelope.error = "404: Tool not found"
  \/ /\ envelope.has = "result" /\ envelope.result.isError
     /\ envelope.result.text = "404: Tool not found"

\* C21: a tools/call whose tool name is not in the catalog yields a
\* recoverable NotFound error for that request in every variant (/mcp and
\* /messages): no tool runs, the caller is told that the tool was not found,
\* and the server goes on serving.
C21_UnknownToolNotFound ==
  /\ Answered =>
       \A j \in 1 .. Len(post.origins) :
         (j <= Len(http.content) /\ IsUnknownToolCall(Origin(j))) =>
           /\ http.status = 200
           /\ ~Suspends(Origin(j))
           /\ SaysNotFound(http.content[j])
  /\ \A id \in Ids \ {None} : messages_body("tools/call", id).has = "error"

\* whether executing the tool of the request sends a request to the
\* completion API: the validation of execute_tool passed and, for
\* compare_products, compare_products_request got two names or more
CallsUpstream(msg) ==
  /\ Suspends(msg)
  /\ msg.params.name = "compare_products" => msg.params.arguments.product_list.n >= 2

\* a compare_products request with an object of arguments whose product_list
\* is missing, empty or of one element
IsShortComparison(msg) ==
  /\ IsToolCall(msg)
  /\ msg.params.name = "compare_products"
  /\ msg.params.arguments.shape \in {"absent", "object"}
  /\ msg.params.arguments.product_list.kind \in {"absent", "list"}
  /\ msg.params.arguments.product_list.n < 2

\* the envelope reports an invalid argument: the 400 of the validation, or a
\* tool result with isError:true
SaysInvalidArgument(envelope) ==
  \/ envelope.has = "error" /\ envelope.error = "400: product name required"
  \/ envelope.has = "result" /\ envelope.result.isError

\* C22: compare_products called through tools/call with fewer than 2 product
\* names (a missing, an empty or a one-element list) fails with
\* InvalidArgument and makes no completion-API call.
C22_ShortComparison ==
  Answered =>
    \A j \in 1 .. Len(post.origins) :
      (j <= Len(http.content) /\ IsShortComparison(Origin(j))) =>
        /\ SaysInvalidArgument(http.content[j])
        /\ ~CallsUpstream(Origin(j))

\* a get_product or create_shopping_guide request whose product_name is
\* missing or empty
IsNamelessProductCall(msg) ==
  /\ IsToolCall(msg)
  /\ msg.params.name \in {"get_product", "create_shopping_guide"}
  /\ msg.params.arguments.shape \in {"absent", "object"}
  /\ msg.params.arguments.product_name \in {None, ""}

\* C23: tools/call for get_product or create_shopping_guide with a missing or
\* empty product_name fails with an InvalidArgument error for that request,
\* with the id of the request, and makes no completion-API call.
C23_MissingProductName ==
  Answered =>
    \A j \in 1 .. Len(post.origins) :
      (j <= Len(http.content) /\ IsNamelessProductCall(Origin(j))) =>
        /\ http.status = 200
        /\ http.content[j].has = "error"
        /\ http.content[j].error = "400: product name required"
        /\ http.content[j].id = Origin(j).id
        /\ ~CallsUpstream(Origin(j))
        /\ \A k \in 1 .. Len(trace) :
             trace[k].i = post.origins[j] =>
               /\ trace[k].ev = "start" => trace[k + 1] = Event(trace[k].i, "end")

C23_Witness ==
  /\ Answered
  /\ http.status = 200
  /\ Len(post.origins) = 2 /\ Len(http.content) = 2
  /\ IsNamelessProductCall(Origin(1))
  /\ Origin(1).params.name = "create_shopping_guide"
  /\ Origin(1).params.arguments.product_name = ""
  /\ http.content[1].has = "error"
  /\ http.content[1].id = "7"

\* the completion API fails during the tool of the request: its first
\* request, or the second request of create_shopping_guide
UpstreamFailed(msg, up1, up2) ==
  /\ CallsUpstream(msg)
  /\ \/ up1 # "ok"
     \/ msg.params.name = "create_shopping_guide" /\ up2 # "ok"

\* C24: every failure of the completion API during get_product,
\* create_shopping_guide or compare_products is reported to the caller as
\* the generic try-again-later message; no upstream failure is returned as a
\* successful tool result.
C24_UpstreamFailureReported ==
  post.pc = "tool" =>
    \A up1, up2 \in Upstream :
      LET msg == post.body.elems[post.i]
          t == execute_tool(msg.params.name, msg.params.arguments, up1, up2)
      IN UpstreamFailed(msg, up1, up2) =>
           /\ t.k = "return"
           /\ t.result.isError
           /\ t.result.text = ERROR_MESSAGE

(***************************************************************************)
(* event_generator of GET /mcp.  A stream is "new" until the response      *)
(* starts to iterate it, then alternates between "check" (the await of     *)
(* request.is_disconnected) and "wait" (the await of queue.get with its    *)
(* 30 second timeout), and ends "closed" (break), "cancelled"              *)
(* (CancelledError caught) or "crashed" (an exception left the generator). *)
(***************************************************************************)
NoQueue == -1

FreshQueue == 0

NoEventId == 0

Frame(kind, id, data, late) ==
  [kind |-> kind, id |-> id, data |-> data, late |-> late]

DataFrame_Unnumbered(event_id, message, late) ==
  Frame("message", NoEventId, message, late)

\* yield {"event": "message", "id": str(event_id), "data": ...}
DataFrame(event_id, message, late) == Frame("message", event_id, message, late)

\* yield {"comment": "keep-alive"}
KeepAlive(late) == Frame("comment", NoEventId, 0, late)

Running(st) == st.pc \in {"new", "check", "wait"}

\* SessionManager.get_queue, for the generator of a request with a header
get_queue(table, session_id) ==
  IF get_session(table, session_id) THEN table[session_id].queue ELSE NoQueue

\* the items of the queue the stream reads; a fresh queue has no producer
Pending(st) ==
  IF st.q \in DOMAIN queues THEN queues[st.q] ELSE <<>>

\* event_id = 0; queue = get_queue(session_id) if session_id else Queue()
StreamStart(k) ==
  /\ k \in 1 .. Len(streams)
  /\ streams[k].pc = "new"
  /\ streams' = [streams EXCEPT ![k].pc = "check",
                                ![k].event_id = 0,
                                ![k].q =
                                  IF streams[k].session # NoSessionHeader
                                  THEN get_queue(sessions, streams[k].session)
                                  ELSE FreshQueue]
  /\ UNCHANGED <<post, http, sessions, next_session, trace, queues, next_msg>>

\* if await request.is_disconnected(): break; else queue.get() is awaited,
\* which raises AttributeError when get_queue returned None
StreamCheck(k) ==
  /\ k \in 1 .. Len(streams)
  /\ streams[k].pc = "check"
  /\ streams' = [streams EXCEPT ![k].pc =
                   IF streams[k].disconnected THEN "closed"
                   ELSE IF streams[k].q = NoQueue THEN "crashed"
                   ELSE "wait"]
  /\ UNCHANGED <<post, http, sessions, next_session, trace, queues, next_msg>>

\* message = await queue.get(); event_id += 1; yield the data frame
StreamDequeue(k) ==
  /\ k \in 1 .. Len(streams)
  /\ streams[k].pc = "wait"
  /\ Pending(streams[k]) # <<>>
  /\ Len(streams[k].frames) < MaxFrames
  /\ streams' = [streams EXCEPT
       ![k].pc = "check",
       ![k].event_id = streams[k].event_id + 1,
       ![k].frames = Append(streams[k].frames,
                            DataFrame(streams[k].event_id + 1,
                                      Head(Pending(streams[k])),
                                      streams[k].disconnected))]
  /\ queues' = [queues EXCEPT ![streams[k].q] = Tail(queues[streams[k].q])]
  /\ UNCHANGED <<post, http, sessions, next_session, trace, next_msg>>

\* asyncio.TimeoutError after 30 seconds with nothing in the queue
StreamTimeout(k) ==
  /\ k \in 1 .. Len(streams)
  /\ streams[k].pc = "wait"
  /\ Pending(streams[k]) = <<>>
  /\ Len(streams[k].frames) < MaxFrames
  /\ streams' = [streams EXCEPT
       ![k].pc = "check",
       ![k].frames = Append(streams[k].frames,
                            KeepAlive(streams[k].disconnected))]
  /\ UNCHANGED <<post, http, sessions, next_session, trace, queues, next_msg>>

\* the hosting task is cancelled: CancelledError is raised at the await the
\* generator is suspended in and is caught by the generator
StreamCancel(k) ==
  /\ k \in 1 .. Len(streams)
  /\ streams[k].pc \in {"check", "wait"}
  /\ streams' = [streams EXCEPT ![k].pc = "cancelled"]
  /\ UNCHANGED <<post, http, sessions, next_session, trace, queues, next_msg>>

\* the peer closes the connection
PeerDisconnect(k) ==
  /\ k \in 1 .. Len(streams)
  /\ Running(streams[k])
  /\ ~streams[k].disconnected
  /\ streams' = [streams EXCEPT ![k].disconnected = TRUE]
  /\ UNCHANGED <<post, http, sessions, next_session, trace, queues, next_msg>>

\* a producer puts the next message in the queue of a session it gets from
\* the session manager
Enqueue(session_id) ==
  /\ next_msg <= MaxMessages
  /\ get_session(sessions, session_id)
  /\ queues' = [queues EXCEPT ![sessions[session_id].queue] =
                  Append(queues[sessions[session_id].queue], next_msg)]
  /\ next_msg' = next_msg + 1
  /\ UNCHANGED <<post, http, sessions, next_session, trace, streams>>

\* the request that creates a session
InitializeBodies == {Body("one", <<Message("initialize", "0", NoParams)>>)}

NextStream ==
  \/ /\ post.pc = "idle"
     /\ \E body \in InitializeBodies :
          PostReceive(body) /\ UNCHANGED <<inflight, oauthVars, streams, queues, next_msg>>
  \/ PostStep /\ UNCHANGED <<inflight, oauthVars, streams, queues, next_msg>>
  \/ PostRespond /\ UNCHANGED <<inflight, oauthVars, streams, queues, next_msg>>
  \/ PostReturn /\ UNCHANGED <<inflight, oauthVars, streams, queues, next_msg>>
  \/ \E h \in SessionHeaders :
       McpDelete(h) /\ UNCHANGED <<inflight, oauthVars, queues, next_msg>>
  \/ \E a \in BOOLEAN, h \in SessionHeaders :
       McpGet(a, h) /\ UNCHANGED <<inflight, oauthVars, queues, next_msg>>
  \/ \E k \in 1 .. MaxStreams : StreamStart(k) /\ UNCHANGED <<inflight, oauthVars>>
  \/ \E k \in 1 .. MaxStreams : StreamCheck(k) /\ UNCHANGED <<inflight, oauthVars>>
  \/ \E k \in 1 .. MaxStreams : StreamDequeue(k) /\ UNCHANGED <<inflight, oauthVars>>
  \/ \E k \in 1 .. MaxStreams : StreamTimeout(k) /\ UNCHANGED <<inflight, oauthVars>>
  \/ \E k \in 1 .. MaxStreams : StreamCancel(k) /\ UNCHANGED <<inflight, oauthVars>>
  \/ \E k \in 1 .. MaxStreams : PeerDisconnect(k) /\ UNCHANGED <<inflight, oauthVars>>
  \/ \E s \in 1 .. MaxSessions : Enqueue(s) /\ UNCHANGED <<inflight, oauthVars>>

SpecStream == Init /\ [][NextStream]_vars

\* the push channel alone: sessions are created, streams opened, messages
\* queued and frames emitted
NextPush ==
  \/ /\ post.pc = "idle"
     /\ \E body \in InitializeBodies :
          PostReceive(body) /\ UNCHANGED <<inflight, oauthVars, streams, queues, next_msg>>
  \/ PostStep /\ UNCHANGED <<inflight, oauthVars, streams, queues, next_msg>>
  \/ PostRespond /\ UNCHANGED <<inflight, oauthVars, streams, queues, next_msg>>
  \/ PostReturn /\ UNCHANGED <<inflight, oauthVars, streams, queues, next_msg>>
  \/ \E h \in SessionHeaders :
       McpGet(TRUE, h) /\ UNCHANGED <<inflight, oauthVars, queues, next_msg>>
  \/ \E k \in 1 .. MaxStreams : StreamStart(k) /\ UNCHANGED <<inflight, oauthVars>>
  \/ \E k \in 1 .. MaxStreams : StreamCheck(k) /\ UNCHANGED <<inflight, oauthVars>>
  \/ \E k \in 1 .. MaxStreams : StreamDequeue(k) /\ UNCHANGED <<inflight, oauthVars>>
  \/ \E k \in 1 .. MaxStreams : StreamTimeout(k) /\ UNCHANGED <<inflight, oauthVars>>
  \/ \E s \in 1 .. MaxSessions : Enqueue(s) /\ UNCHANGED <<inflight, oauthVars>>

SpecPush == Init /\ [][NextPush]_vars

\* C25: a session is closed (removed from the session table, so that
\* get_session no longer returns it) when DELETE /mcp names it, and also when
\* its push channel detects that the peer disconnected.
C25_SessionClosed ==
  /\ \A h \in DOMAIN sessions :
       ~get_session(mcp_delete(sessions, h).sessions, h)
  /\ \A k \in 1 .. Len(streams) :
       (streams[k].pc = "closed" /\ streams[k].session # NoSessionHeader)
         => ~get_session(sessions, streams[k].session)

\* the number of data frames among the first i frames
DataFramesUpTo(frames, i) ==
  Cardinality({m \in 1 .. i : frames[m].kind = "message"})

C27_NoFrameAfterDisconnect ==
  \A k \in 1 .. Len(streams) :
    \A i \in 1 .. Len(streams[k].frames) : ~streams[k].frames[i].late

(***************************************************************************)
(* POST /oauth/token under the cooperative scheduler.  The handler has one *)
(* suspension point, the read of the form; everything after it runs        *)
(* without yielding.  A request is in a slot: suspended in the read of the *)
(* form ("form") or answered ("done").  live records that the presented    *)
(* value was a stored code when the request arrived.                       *)
(***************************************************************************)
NoStatus == 0

Suspended(grant_type, value) ==
  [pc |-> "form", grant_type |-> grant_type, value |-> value,
   live |-> value \in DOMAIN auth_codes, status |-> NoStatus]

\* the request arrives, takes the next slot and suspends in
\* await request.form()
TokenBegin(r, grant_type, value) ==
  /\ inflight[r].pc = "free"
  /\ \A q \in 1 .. (r - 1) : inflight[q].pc # "free"
  /\ inflight' = [inflight EXCEPT ![r] = Suspended(grant_type, value)]
  /\ UNCHANGED oauthVars

\* the handler is resumed and runs to its response
TokenResume(r) ==
  /\ inflight[r].pc = "form"
  /\ Token(inflight[r].grant_type, inflight[r].value)
  /\ inflight' =
       [inflight EXCEPT
          ![r].pc = "done",
          ![r].status =
            token_endpoint(inflight[r].grant_type, inflight[r].value).status]

\* the values a redeeming client presents: a code it was given, or none
PresentedCodes == DOMAIN minted_codes \cup {NoSecret}

\* the user whose login mints the codes that are raced for
CodeOwner == [user_email |-> "alice@example.com", user_name |-> "Alice"]

NextToken ==
  \/ \E t \in Instants : Tick(t) /\ UNCHANGED <<inflight, mcpVars>>
  \/ \E c \in ClientIds :
       Callback(CodeOwner, c, TRUE) /\ UNCHANGED <<inflight, mcpVars>>
  \/ \E r \in 1 .. MaxInflight, s \in PresentedCodes :
       TokenBegin(r, "authorization_code", s) /\ UNCHANGED mcpVars
  \/ \E r \in 1 .. MaxInflight : TokenResume(r) /\ UNCHANGED mcpVars

SpecToken == Init /\ [][NextToken]_vars

Redeemers(code) ==
  {r \in 1 .. MaxInflight :
     /\ inflight[r].grant_type = "authorization_code"
     /\ inflight[r].value = code}

Winners(code) ==
  {r \in Redeemers(code) : inflight[r].pc = "done" /\ inflight[r].status = 200}

\* C28: redemption is atomic.  Of the requests that redeem one code, however
\* their suspensions in the read of the form interleave, at most one is
\* answered with a token pair, and once one has been the code is no longer in
\* the code table.
C28_AtomicRedemption ==
  \A code \in Presentable :
    /\ Cardinality(Winners(code)) <= 1
    /\ Winners(code) # {} => code \notin DOMAIN auth_codes

C28_Witness ==
  \E code \in Presentable, r1, r2 \in 1 .. MaxInflight :
    /\ r1 # r2
    /\ {r1, r2} \subseteq Redeemers(code)
    /\ inflight[r1].live /\ inflight[r2].live
    /\ inflight[r1].pc = "done" /\ inflight[r1].status = 200
    /\ inflight[r2].pc = "done" /\ inflight[r2].status = 400
    /\ code \notin DOMAIN auth_codes

\* C29: after DELETE /mcp has removed a session, a push channel opened for
\* that session before the delete emits no further frame, and a GET /mcp
\* with the deleted id is answered 404.
C29_DeletedSessionSilent ==
  [][/\ \A k \in 1 .. Len(streams) :
          (/\ streams[k].session \in DeletedSessions
           /\ k <= Len(streams'))
            => streams'[k].frames = streams[k].frames
     /\ \A h \in DeletedSessions :
          mcp_get(sessions, TRUE, h).status = 404]_vars

\* the entries of the access-token table that carry a refresh token
Carriers(refresh_token_value) ==
  {k \in DOMAIN tokens : tokens[k].refresh_token = refresh_token_value}

RefreshAccepted(refresh_token_value) ==
  token_endpoint("refresh_token", refresh_token_value).status = 200

\* an entry leaves the access-token table in this step
Removed == DOMAIN tokens \ DOMAIN tokens'

\* C30: a refresh_token exchange succeeds exactly when some entry of the
\* access-token table carries the presented refresh token, expired or not;
\* and an entry leaves the table only in a step that is verify_token called
\* on that entry after its expires_at.
C30_RefreshFollowsTable ==
  /\ [](\A rt \in Presentable : RefreshAccepted(rt) <=> Carriers(rt) # {})
  /\ [][\A k \in Removed :
          /\ TokenExpired(tokens[k], now)
          /\ \E h \in Headers :
               /\ TokenKey(tokens, h) = k
               /\ tokens' = verify_token(tokens, h, now).tokens]_vars

\* a refresh token is accepted through an expired entry, after another
\* access token issued for the same code was verified away
C30_Witness ==
  \E k \in DOMAIN tokens, gone \in DOMAIN issued \ DOMAIN tokens :
    /\ k \in DOMAIN issued
    /\ issued[gone].code = issued[k].code
    /\ TokenExpired(tokens[k], now)
    /\ \A c \in Carriers(tokens[k].refresh_token) :
         TokenExpired(tokens[c], now)
    /\ RefreshAccepted(tokens[k].refresh_token)

====
